---- MODULE Spec2Model ----
(***************************************************************************)
(* UrjaRakshak front end: the typed API client (frontend/src/lib/api.ts)   *)
(* and the dashboard page that joins api.health() and api.getPhysicsInfo() *)
(* with Promise.all (the dashboard page, src/unnamed/part_001); then the   *)
(* home page's liveness probe (app/page.tsx), the docs page's copy marker  *)
(* (app/docs/page.tsx), the AnimatedNumber counter and the usePlatform     *)
(* hook, each with a specification of its own further down.                *)
(*                                                                         *)
(* Execution model: one JavaScript event loop.  A network event (a fetch   *)
(* settling, a body read finishing) is a task; the promise reactions it    *)
(* triggers are microtasks, which run before the next task.  The three     *)
(* reactions of the dashboard's chain .then/.catch/.finally are separate   *)
(* steps here, and no task is enabled while one of them is pending.        *)
(***************************************************************************)
EXTENDS Integers, Sequences, FiniteSets, TLC

VARIABLES
    env,          \* process.env.NEXT_PUBLIC_API_URL, read once at module load
    calls,        \* the API-client invocations in progress, by call id
    requests,     \* every HTTP request issued so far, in order
    directCalls,  \* how many times a caller other than the dashboard invoked the client
    urlReads,     \* what api.getApiUrl() returned so far, in order, each with the
                  \* number of requests that had been issued when it was called
    lifecycle,    \* Dashboard component: "rendered" | "effect" | "unmounted"
    health,       \* useState<any>(null)
    physics,      \* useState<any>(null)
    loading,      \* useState(true)
    error,        \* useState<string | null>(null)
    all,          \* the promise made by Promise.all([...])
    pc,           \* next reaction of the chain: "idle" | "then" | "catch" | "finally" | "done"
    chainVal,     \* settlement handed to the next reaction of the chain
    settleOrder,  \* ids of the dashboard's calls in the order they settled
    isLive,       \* Home: useState(false)
    probe,        \* Home: the fetch of its effect: stage, and the response status
    copiedCode,   \* Docs: useState<string | null>(null)
    timeouts,     \* Docs: the timers started by setTimeout, in order
    now,          \* Docs: the clock, in units of TimeUnit milliseconds
    clipboard,    \* Docs: the text last written to the clipboard
    copies,       \* Docs: the copyCode calls made so far: id and time
    display,      \* AnimatedNumber: useState(0), a rational number
    props,        \* AnimatedNumber: the props of the last render
    intervals,    \* AnimatedNumber: the timers started by setInterval, in order
    animLife,     \* AnimatedNumber: "none" | "mounted" | "unmounted"
    platform,     \* usePlatform: useState<Platform>('unknown')
    dataPlatform, \* document.body.dataset.platform
    uaReads,      \* usePlatform: the values navigator.userAgent returned when read
    hookLife      \* usePlatform: "rendered" | "effect" | "committed"

vars == <<env, calls, requests, directCalls, urlReads, lifecycle, health, physics,
          loading, error, all, pc, chainVal, settleOrder,
          isLive, probe, copiedCode, timeouts, now, clipboard, copies,
          display, props, intervals, animLife,
          platform, dataPlatform, uaReads, hookLife>>

homeVars == <<isLive, probe>>
docsVars == <<copiedCode, timeouts, now, clipboard, copies>>
animVars == <<display, props, intervals, animLife>>
hookVars == <<platform, dataPlatform, uaReads, hookLife>>

\* The state of the pages and components other than the dashboard
pageVars == <<homeVars, docsVars, animVars, hookVars>>

dashVars == <<lifecycle, health, physics, loading, error, all, pc, chainVal, settleOrder>>

---------------------------------------------------------------------------
(* Bounds *)

\* Invocations of the client made directly (not by the dashboard).
MaxDirectCalls == 1

\* Calls of api.getApiUrl().
MaxUrlReads == 2

\* Clicks on a copy button of the docs page.
MaxCopies == 2

\* How far the docs page's clock runs, in milliseconds.
MaxTime == 3000

\* Runs of AnimatedNumber's effect: the mount and the prop changes after it.
MaxEffectRuns == 2

---------------------------------------------------------------------------
(* JavaScript values *)

Undefined == [t |-> "undefined"]
Null == [t |-> "null"]
Str(s) == [t |-> "string", s |-> s]
Obj(fields) == [t |-> "object", fields |-> fields]
\* new Error(message) / TypeError / SyntaxError: only .message is ever read
Err(message) == [t |-> "error", message |-> message]
Arr(items) == [t |-> "array", items |-> items]

\* A number that need not be an integer (0.8, a step of value / 2.5), kept as a
\* fraction with a positive denominator
Rat(n, d) == [num |-> n, den |-> d]

\* AnimatedNumber before its first render
NoProps == [value |-> 0, duration |-> 0]

\* ToBoolean, as used by `||` and `if (x)`
Truthy(v) ==
    CASE v.t = "undefined" -> FALSE
      [] v.t = "null"      -> FALSE
      [] v.t = "string"    -> v.s # ""
      [] OTHER             -> TRUE

---------------------------------------------------------------------------
(* Configuration: api.ts line 19 *)

DefaultUrl == "http://localhost:8000"
OverrideUrl == "https://urjarakshak.onrender.com"

EnvValues == {Undefined, Str(OverrideUrl)}

\* const API_URL = process.env.NEXT_PUBLIC_API_URL || 'http://localhost:8000'
API_URL == IF Truthy(env) THEN env.s ELSE DefaultUrl

\* Mutant: the accessor returns the URL of the latest request.
getApiUrl_LastRequested == IF requests = <<>> THEN API_URL ELSE requests[Len(requests)].url

\* getApiUrl() { return API_URL }
getApiUrl == API_URL

---------------------------------------------------------------------------
(* The remote service, as seen through fetch *)

Statuses == {200, 422, 503}

\* Response.ok
Ok(status) == status >= 200 /\ status <= 299

HealthyBody == "{\"status\":\"healthy\",\"components\":{}}"
DegradedBody == "{\"status\":\"degraded\",\"components\":{}}"
PhysicsBody == "{\"engine\":\"PhysicsEngine\",\"purpose\":\"validation\",\"parameters\":{}}"
PhysicsBodyB == "{\"engine\":\"PhysicsEngine v2\",\"purpose\":\"validation\",\"parameters\":{}}"
ResultBody == "{\"balance_status\":\"balanced\",\"confidence_score\":0.95}"
DetailBody == "{\"detail\":\"Service unavailable\"}"
PositiveDetailBody == "{\"detail\":\"input_energy_mwh must be positive\"}"
EmptyDetailBody == "{\"detail\":\"\"}"
ListDetailBody == "{\"detail\":[{\"loc\":[\"body\",\"substation_id\"],\"msg\":\"field required\"}]}"
NoDetailBody == "{\"error\":\"Unprocessable Entity\"}"
HtmlBody == "<html>Bad Gateway</html>"
TruncatedBody == "{\"status\":"

ParseErrorMessage == "Unexpected end of JSON input"
NetworkErrors == {"Failed to fetch"}

\* AnalysisRequest values a caller passes to analyzeGrid: a well-formed one, one
\* with a component, and one the remote service will refuse.
ReqPlain == Obj([substation_id |-> "SS-1", input_energy_mwh |-> 100,
                 output_energy_mwh |-> 95, components |-> <<>>])
ReqComponent == Obj([substation_id |-> "SS-2", input_energy_mwh |-> 100,
                     output_energy_mwh |-> 95,
                     components |-> <<[component_id |-> "T1", component_type |-> "transformer",
                                       rated_capacity_kva |-> 500]>>])
ReqNegative == Obj([substation_id |-> "SS-1", input_energy_mwh |-> -5,
                    output_energy_mwh |-> 95, components |-> <<>>])
AnalysisRequests == {ReqPlain, ReqComponent, ReqNegative}

ReqPlainText == "{\"substation_id\":\"SS-1\",\"input_energy_mwh\":100,\"output_energy_mwh\":95,\"components\":[]}"
ReqComponentText == "{\"substation_id\":\"SS-2\",\"input_energy_mwh\":100,\"output_energy_mwh\":95,\"components\":[{\"component_id\":\"T1\",\"component_type\":\"transformer\",\"rated_capacity_kva\":500}]}"
ReqNegativeText == "{\"substation_id\":\"SS-1\",\"input_energy_mwh\":-5,\"output_energy_mwh\":95,\"components\":[]}"

\* JSON.stringify(data)
JSONStringify(v) ==
    CASE v = ReqPlain     -> ReqPlainText
      [] v = ReqComponent -> ReqComponentText
      [] v = ReqNegative  -> ReqNegativeText

\* JSON.parse as run by Response.json(): [ok, value] or [ok = FALSE, message]
JSONParse(text) ==
    CASE text = HealthyBody  -> [ok |-> TRUE, value |-> Obj([status |-> "healthy", components |-> "{}"])]
      [] text = DegradedBody -> [ok |-> TRUE, value |-> Obj([status |-> "degraded", components |-> "{}"])]
      [] text = PhysicsBody  -> [ok |-> TRUE, value |-> Obj([engine |-> "PhysicsEngine", purpose |-> "validation", parameters |-> "{}"])]
      [] text = PhysicsBodyB -> [ok |-> TRUE, value |-> Obj([engine |-> "PhysicsEngine v2", purpose |-> "validation", parameters |-> "{}"])]
      [] text = ResultBody   -> [ok |-> TRUE, value |-> Obj([balance_status |-> "balanced", confidence_score |-> "0.95"])]
      [] text = DetailBody   -> [ok |-> TRUE, value |-> Obj([detail |-> Str("Service unavailable")])]
      [] text = PositiveDetailBody ->
                                [ok |-> TRUE, value |-> Obj([detail |-> Str("input_energy_mwh must be positive")])]
      [] text = EmptyDetailBody ->
                                [ok |-> TRUE, value |-> Obj([detail |-> Str("")])]
      [] text = ListDetailBody ->
                                [ok |-> TRUE, value |-> Obj([detail |-> Arr(<<Obj([loc |-> "body,substation_id", msg |-> "field required"])>>)])]
      [] text = NoDetailBody -> [ok |-> TRUE, value |-> Obj([error |-> Str("Unprocessable Entity")])]
      [] text = ReqPlainText -> [ok |-> TRUE, value |-> ReqPlain]
      [] text = ReqComponentText -> [ok |-> TRUE, value |-> ReqComponent]
      [] text = ReqNegativeText -> [ok |-> TRUE, value |-> ReqNegative]
      [] OTHER               -> [ok |-> FALSE, message |-> ParseErrorMessage]

\* Bodies the HTTP contract gives a 2xx response of each endpoint (a JSON object of
\* the endpoint's type), or that body cut short in transit.
SuccessBodies(op) ==
    CASE op = "health"         -> {HealthyBody, DegradedBody, TruncatedBody}
      [] op = "getPhysicsInfo" -> {PhysicsBody, PhysicsBodyB, TruncatedBody}
      [] op = "analyzeGrid"    -> {ResultBody, TruncatedBody}
      [] OTHER                 -> {}

\* A non-2xx response may carry any body.
FailureBodies == {DetailBody, HtmlBody, HealthyBody}

\* Non-2xx bodies of the analyze endpoint: a string detail, an empty detail, the
\* list detail of a request-validation error, no detail, and a proxy's HTML page.
AnalyzeFailureBodies == {PositiveDetailBody, EmptyDetailBody, ListDetailBody, NoDetailBody, HtmlBody}

ServerResponses(op) ==
    IF op = "none" THEN {}
    ELSE {[status |-> s, body |-> b] : s \in {x \in Statuses : Ok(x)}, b \in SuccessBodies(op)}
           \cup {[status |-> s, body |-> b] : s \in {x \in Statuses : ~Ok(x)},
                     b \in IF op = "analyzeGrid" THEN AnalyzeFailureBodies ELSE FailureBodies}

NoResponse == [status |-> 0, body |-> ""]

---------------------------------------------------------------------------
(* The API client: api.ts.  The file declares `api` twice: lines 3-17      *)
(* (health, analyzeGrid) and lines 48-77 (health, getPhysicsInfo,          *)
(* analyzeGrid, getApiUrl).  ApiDefs numbers the two declarations.         *)

ApiDefs == {1, 2}

Ops == {"health", "getPhysicsInfo", "analyzeGrid"}

HasOp(def, op) ==
    CASE def = 1 -> op \in {"health", "analyzeGrid"}
      [] def = 2 -> op \in {"health", "getPhysicsInfo", "analyzeGrid"}

\* The arguments an operation can be invoked with
Args(op) == IF op = "analyzeGrid" THEN AnalysisRequests ELSE {Undefined}

Path(op) ==
    CASE op = "health"         -> "/health"
      [] op = "getPhysicsInfo" -> "/api/v1/physics/info"
      [] op = "analyzeGrid"    -> "/api/v1/analysis/validate"

Method(op) == IF op = "analyzeGrid" THEN "POST" ELSE "GET"

NoBody == ""

\* Mutant: a negative input energy is replaced before the request is sent.
RequestBody_Sanitised(op, data) ==
    IF op # "analyzeGrid" THEN NoBody
    ELSE IF data = ReqNegative THEN JSONStringify(ReqPlain) ELSE JSONStringify(data)

\* body: JSON.stringify(data)
RequestBody(op, data) == IF op = "analyzeGrid" THEN JSONStringify(data) ELSE NoBody

\* The caller's object once the operation has been invoked: no operation assigns
\* to its argument.
DataAfterCall(op, data) == data

\* Mutant: the base URL is hard-coded, the override is ignored.
Request_DefaultOnly(op, by, data) ==
    [by |-> by, method |-> Method(op), url |-> DefaultUrl \o Path(op),
     body |-> RequestBody(op, data)]

\* fetch(`${API_URL}<path>`, ...); `by` records who invoked the operation
Request(op, by, data) ==
    [by |-> by, method |-> Method(op), url |-> API_URL \o Path(op),
     body |-> RequestBody(op, data)]

\* String(v), as done by new Error(v) for a message that is not a string
StringOf(v) ==
    CASE v.t = "string"    -> v.s
      [] v.t = "undefined" -> ""
      [] v.t = "array"     -> IF v.items = <<>> THEN "" ELSE "[object Object]"
      [] OTHER             -> "[object Object]"

\* obj.key
Get(obj, key) == IF key \in DOMAIN obj.fields THEN obj.fields[key] ELSE Undefined

\* a || b
OrElse(a, b) == IF Truthy(a) THEN a ELSE b

\* Mutant: no operation checks res.ok before reading the body.
AfterFetch_NoOkCheck(op, def, res) == [next |-> "json"]

\* What the operation does with the Response of `await fetch(...)`:
\* throw (reject) or go on to res.json().
AfterFetch(op, def, res) ==
    CASE op = "health" /\ def = 1 ->
            [next |-> "json"]
      [] op = "health" /\ def = 2 ->
            IF ~Ok(res.status) THEN [next |-> "reject", message |-> "Health check failed"]
                               ELSE [next |-> "json"]
      [] op = "getPhysicsInfo" /\ def = 2 ->
            IF ~Ok(res.status) THEN [next |-> "reject", message |-> "Failed to fetch physics info"]
                               ELSE [next |-> "json"]
      [] op = "analyzeGrid" ->
            [next |-> "json"]

\* Mutant: the parsed body is returned inside a wrapper object.
AfterJson_Wrapped(op, def, res) ==
    LET parsed == JSONParse(res.body) IN
    IF ~parsed.ok THEN [stage |-> "rejected", out |-> Err(parsed.message)]
    ELSE IF op = "analyzeGrid" /\ def = 2 /\ ~Ok(res.status)
         THEN [stage |-> "rejected",
               out |-> Err(StringOf(OrElse(Get(parsed.value, "detail"), Str("Analysis failed"))))]
         ELSE [stage |-> "resolved", out |-> Obj([data |-> parsed.value])]

\* What the operation does when res.json() has settled.  `return res.json()`: the
\* operation's promise follows the body's parse.  analyzeGrid of the second
\* declaration, on a non-2xx response: `const error = await res.json();
\* throw new Error(error.detail || 'Analysis failed')`.
AfterJson(op, def, res) ==
    LET parsed == JSONParse(res.body) IN
    IF ~parsed.ok THEN [stage |-> "rejected", out |-> Err(parsed.message)]
    ELSE IF op = "analyzeGrid" /\ def = 2 /\ ~Ok(res.status)
         THEN [stage |-> "rejected",
               out |-> Err(StringOf(OrElse(Get(parsed.value, "detail"), Str("Analysis failed"))))]
         ELSE [stage |-> "resolved", out |-> parsed.value]

\* The message each operation of the second declaration throws by itself
FixedMessage(op) ==
    CASE op = "health"         -> "Health check failed"
      [] op = "getPhysicsInfo" -> "Failed to fetch physics info"
      [] op = "analyzeGrid"    -> "Analysis failed"

CallIds == {"dashHealth", "dashPhysics", "direct"}
DashIds == {"dashHealth", "dashPhysics"}

\* A call: the operation and declaration invoked, the argument passed and the
\* caller's object as the operation left it, how far the call has run, the HTTP
\* status it received (0: none), the Response it received, and the value or
\* error its promise settled with.
IdleCall == [op |-> "none", def |-> 0, arg |-> Undefined, data |-> Undefined, stage |-> "idle",
             status |-> 0, res |-> NoResponse, out |-> Undefined]
Issued(op, def, data) ==
    [op |-> op, def |-> def, arg |-> data, data |-> DataAfterCall(op, data), stage |-> "fetching",
     status |-> 0, res |-> NoResponse, out |-> Undefined]

Settled(c) == c.stage \in {"resolved", "rejected"}

---------------------------------------------------------------------------
(* Promise.all([api.health(), api.getPhysicsInfo()]): dashboard lines 17-20 *)

AllPending == [state |-> "pending", values |-> <<Undefined, Undefined>>,
               remaining |-> 2, reason |-> Undefined]

\* Position of a dashboard call in the array given to Promise.all
Index(id) == IF id = "dashHealth" THEN 1 ELSE 2

\* Mutant: the join fulfils as soon as any element fulfils (Promise.any).
PromiseAllReact_Any(a, i, stage, out) ==
    IF a.state # "pending" THEN a
    ELSE IF stage = "resolved"
         THEN [a EXCEPT !.values = [a.values EXCEPT ![i] = out],
                        !.remaining = a.remaining - 1, !.state = "fulfilled"]
         ELSE [a EXCEPT !.state = "rejected", !.reason = out]

\* Mutant: fulfilled values are stored in arrival order, not at the element's index.
PromiseAllReact_ArrivalOrder(a, i, stage, out) ==
    IF stage = "resolved"
    THEN [a EXCEPT !.values = [a.values EXCEPT ![3 - a.remaining] = out],
                   !.remaining = a.remaining - 1,
                   !.state = IF a.state = "pending" /\ a.remaining = 1
                             THEN "fulfilled" ELSE a.state]
    ELSE IF a.state = "pending"
         THEN [a EXCEPT !.state = "rejected", !.reason = out]
         ELSE a

\* Mutant: the join waits for every element and then rejects with the rejection of
\* the lowest index.
PromiseAllReact_WaitForAll(a, i, stage, out) ==
    LET vals == [a.values EXCEPT ![i] = out]
        failed == {k \in 1..2 : vals[k].t = "error"} IN
    IF a.remaining > 1
    THEN [a EXCEPT !.values = vals, !.remaining = a.remaining - 1]
    ELSE IF failed # {}
         THEN [a EXCEPT !.values = vals, !.remaining = 0, !.state = "rejected",
                        !.reason = vals[CHOOSE k \in failed : \A j \in failed : k <= j]]
         ELSE [a EXCEPT !.values = vals, !.remaining = 0, !.state = "fulfilled"]

\* Mutant: the join waits for every element and always fulfils with what each
\* element settled with (Promise.allSettled).
PromiseAllReact_AllSettled(a, i, stage, out) ==
    [a EXCEPT !.values = [a.values EXCEPT ![i] = out],
              !.remaining = a.remaining - 1,
              !.state = IF a.remaining = 1 THEN "fulfilled" ELSE a.state]

\* Mutant: the join settles with whichever element settles first (Promise.race).
PromiseAllReact_Race(a, i, stage, out) ==
    IF a.state # "pending" THEN a
    ELSE IF stage = "resolved"
         THEN [a EXCEPT !.values = [a.values EXCEPT ![i] = out],
                        !.remaining = a.remaining - 1, !.state = "fulfilled"]
         ELSE [a EXCEPT !.state = "rejected", !.reason = out]

\* Promise.all's reaction to one element settling.  An element fulfilling stores
\* its value and fulfils the join when it was the last one; an element rejecting
\* rejects the join at once.  A settled join never changes state again.
PromiseAllReact(a, i, stage, out) ==
    IF stage = "resolved"
    THEN [a EXCEPT !.values = [a.values EXCEPT ![i] = out],
                   !.remaining = a.remaining - 1,
                   !.state = IF a.state = "pending" /\ a.remaining = 1
                             THEN "fulfilled" ELSE a.state]
    ELSE IF a.state = "pending"
         THEN [a EXCEPT !.state = "rejected", !.reason = out]
         ELSE a

NoSettlement == [state |-> "none", values |-> <<>>, reason |-> Undefined]
Fulfilled(vals) == [state |-> "fulfilled", values |-> vals, reason |-> Undefined]
Rejected(r) == [state |-> "rejected", values |-> <<>>, reason |-> r]

SettlementOf(a) == IF a.state = "fulfilled" THEN Fulfilled(a.values) ELSE Rejected(a.reason)

---------------------------------------------------------------------------
(* The Dashboard component *)

\* No promise reaction is pending, so the event loop may run the next task.
MicrotasksIdle == pc \in {"idle", "done"}

\* Mutant: a state setter still writes after the component unmounted.
Set_AfterUnmount(cur, new) == new

\* A state setter of an unmounted component changes nothing.
Set(cur, new) == IF lifecycle = "unmounted" THEN cur ELSE new

\* Mutant: the callback forgets setPhysics.
ThenCallback_HealthOnly(vals) == [health |-> vals[1], physics |-> physics]

\* .then(([healthData, physicsData]) => { setHealth(healthData); setPhysics(physicsData) })
ThenCallback(vals) == [health |-> vals[1], physics |-> vals[2]]

\* Mutant: the callback stores a generic message instead of the error's.
CatchCallback_Generic(err) == Str("Connection failed")

\* Mutant: the callback swallows the rejection and stores no message.
CatchCallback_Silent(err) == Null

\* .catch((err) => setError(err.message))
CatchCallback(err) == Str(err.message)

\* Mutant: the last reaction leaves the loading flag set.
FinallyCallback_KeepLoading == TRUE

\* .finally(() => setLoading(false))
FinallyCallback == FALSE

\* Mutant: the error panel shows only its heading, not the stored message.
Render_HeadingOnly(l, e, h, p) ==
    IF l THEN [view |-> "loading"]
    ELSE IF Truthy(e) THEN [view |-> "error", message |-> "Connection Error"]
    ELSE [view |-> "main", health |-> h, physics |-> p]

\* The component's return value: lines 29-54
Render(l, e, h, p) ==
    IF l THEN [view |-> "loading"]
    ELSE IF Truthy(e) THEN [view |-> "error", message |-> e.s]
    ELSE [view |-> "main", health |-> h, physics |-> p]

Rendered == Render(loading, error, health, physics)

---------------------------------------------------------------------------
(* Initial state: module loaded, Dashboard rendered once, effect not yet run *)

Init ==
    /\ env \in EnvValues
    /\ calls = [id \in CallIds |-> IdleCall]
    /\ requests = <<>>
    /\ directCalls = 0
    /\ urlReads = <<>>
    /\ lifecycle = "rendered"
    /\ health = Null
    /\ physics = Null
    /\ loading = TRUE
    /\ error = Null
    /\ all = AllPending
    /\ pc = "idle"
    /\ chainVal = NoSettlement
    /\ settleOrder = <<>>
    /\ isLive = FALSE
    /\ probe = [stage |-> "rendered", status |-> 0]
    /\ copiedCode = Null
    /\ timeouts = <<>>
    /\ now = 0
    /\ clipboard = Undefined
    /\ copies = <<>>
    /\ display = Rat(0, 1)
    /\ props = NoProps
    /\ intervals = <<>>
    /\ animLife = "none"
    /\ platform = "unknown"
    /\ dataPlatform = Undefined
    /\ uaReads = <<>>
    /\ hookLife = "rendered"

---------------------------------------------------------------------------
(* Actions *)

\* Mutant: setLoading(false) is called in the effect body, outside the chain.
DashboardEffect_EagerLoading ==
    /\ lifecycle = "rendered"
    /\ lifecycle' = "effect"
    /\ calls' = [calls EXCEPT !["dashHealth"] = Issued("health", 2, Undefined),
                              !["dashPhysics"] = Issued("getPhysicsInfo", 2, Undefined)]
    /\ requests' = requests \o <<Request("health", "dashboard", Undefined), Request("getPhysicsInfo", "dashboard", Undefined)>>
    /\ all' = AllPending
    /\ loading' = FALSE
    /\ UNCHANGED <<pageVars, env, urlReads, directCalls, health, physics, error, pc, chainVal, settleOrder>>

\* useEffect(() => { Promise.all([api.health(), api.getPhysicsInfo()])... }, [])
DashboardEffect ==
    /\ lifecycle = "rendered"
    /\ lifecycle' = "effect"
    /\ calls' = [calls EXCEPT !["dashHealth"] = Issued("health", 2, Undefined),
                              !["dashPhysics"] = Issued("getPhysicsInfo", 2, Undefined)]
    /\ requests' = requests \o <<Request("health", "dashboard", Undefined), Request("getPhysicsInfo", "dashboard", Undefined)>>
    /\ all' = AllPending
    /\ UNCHANGED <<pageVars, env, urlReads, directCalls, health, physics, loading, error, pc, chainVal, settleOrder>>

\* A caller other than the dashboard invokes an operation of either declaration.
DirectInvoke(op, def, data) ==
    /\ MicrotasksIdle
    /\ directCalls < MaxDirectCalls
    /\ calls["direct"].stage \in {"idle", "resolved", "rejected"}
    /\ HasOp(def, op)
    /\ data \in Args(op)
    /\ calls' = [calls EXCEPT !["direct"] = Issued(op, def, data)]
    /\ requests' = Append(requests, Request(op, "direct", data))
    /\ directCalls' = directCalls + 1
    /\ UNCHANGED <<pageVars, env, urlReads, dashVars>>

\* The promise of call `id` settles; for a dashboard call Promise.all reacts, and
\* when that settles the join the chain's first reaction is queued.
Settle(id, status, stage, out) ==
    /\ calls' = [calls EXCEPT ![id] = [@ EXCEPT !.stage = stage, !.status = status, !.out = out]]
    /\ IF id \in DashIds
       THEN LET a2 == PromiseAllReact(all, Index(id), stage, out) IN
            /\ all' = a2
            /\ settleOrder' = Append(settleOrder, id)
            /\ IF all.state = "pending" /\ a2.state # "pending"
               THEN pc' = "then" /\ chainVal' = SettlementOf(a2)
               ELSE UNCHANGED <<pc, chainVal>>
            /\ UNCHANGED <<lifecycle, health, physics, loading, error>>
       ELSE UNCHANGED dashVars

\* fetch() resolves with a Response
FetchResponds(id, res) ==
    /\ MicrotasksIdle
    /\ calls[id].stage = "fetching"
    /\ res \in ServerResponses(calls[id].op)
    /\ LET step == AfterFetch(calls[id].op, calls[id].def, res) IN
       IF step.next = "reject"
       THEN Settle(id, res.status, "rejected", Err(step.message))
       ELSE /\ calls' = [calls EXCEPT ![id] = [@ EXCEPT !.stage = "reading", !.status = res.status,
                                                        !.res = res]]
            /\ UNCHANGED dashVars
    /\ UNCHANGED <<pageVars, env, urlReads, requests, directCalls>>

\* Mutant: the operation catches the fetch rejection and throws its fixed message.
FetchFails_FixedMessage(id, message) ==
    /\ MicrotasksIdle
    /\ calls[id].stage = "fetching"
    /\ Settle(id, 0, "rejected", Err(FixedMessage(calls[id].op)))
    /\ UNCHANGED <<pageVars, env, urlReads, requests, directCalls>>

\* Mutant: the operation retries the request when fetch rejects.
FetchFails_Retry(id, message) ==
    /\ MicrotasksIdle
    /\ calls[id].stage = "fetching"
    /\ Len(requests) <= directCalls
    /\ requests' = Append(requests, Request(calls[id].op, "direct", calls[id].arg))
    /\ UNCHANGED <<pageVars, env, urlReads, calls, directCalls, dashVars>>

\* fetch() rejects: no HTTP response (DNS, refused connection, CORS, offline)
FetchFails(id, message) ==
    /\ MicrotasksIdle
    /\ calls[id].stage = "fetching"
    /\ Settle(id, 0, "rejected", Err(message))
    /\ UNCHANGED <<pageVars, env, urlReads, requests, directCalls>>

\* res.json() settles
BodyRead(id) ==
    /\ MicrotasksIdle
    /\ calls[id].stage = "reading"
    /\ LET r == AfterJson(calls[id].op, calls[id].def, calls[id].res) IN
       Settle(id, calls[id].status, r.stage, r.out)
    /\ UNCHANGED <<pageVars, env, urlReads, requests, directCalls>>

\* Reaction of .then(...): lines 21-24
ThenStep ==
    /\ pc = "then"
    /\ IF chainVal.state = "fulfilled"
       THEN LET s == ThenCallback(chainVal.values) IN
            /\ health' = Set(health, s.health)
            /\ physics' = Set(physics, s.physics)
            /\ chainVal' = Fulfilled(<<>>)
       ELSE UNCHANGED <<health, physics, chainVal>>
    /\ pc' = "catch"
    /\ UNCHANGED <<pageVars, env, urlReads, calls, requests, directCalls, lifecycle, loading, error, all, settleOrder>>

\* Reaction of .catch(...): line 25
CatchStep ==
    /\ pc = "catch"
    /\ IF chainVal.state = "rejected"
       THEN /\ error' = Set(error, CatchCallback(chainVal.reason))
            /\ chainVal' = Fulfilled(<<>>)
       ELSE UNCHANGED <<error, chainVal>>
    /\ pc' = "finally"
    /\ UNCHANGED <<pageVars, env, urlReads, calls, requests, directCalls, lifecycle, health, physics, loading, all, settleOrder>>

\* Mutant: the last reaction also schedules the next poll.
FinallyStep_Repoll ==
    /\ pc = "finally"
    /\ loading' = Set(loading, FinallyCallback)
    /\ pc' = "idle"
    /\ lifecycle' = IF lifecycle = "effect" THEN "rendered" ELSE lifecycle
    /\ UNCHANGED <<pageVars, env, urlReads, calls, requests, directCalls, health, physics, error, all, chainVal, settleOrder>>

\* Reaction of .finally(...): line 26
FinallyStep ==
    /\ pc = "finally"
    /\ loading' = Set(loading, FinallyCallback)
    /\ pc' = "done"
    /\ UNCHANGED <<pageVars, env, urlReads, calls, requests, directCalls, lifecycle, health, physics, error, all, chainVal, settleOrder>>

\* The user navigates away; the effect returns no cleanup, so nothing is cancelled.
Unmount ==
    /\ MicrotasksIdle
    /\ lifecycle = "effect"
    /\ lifecycle' = "unmounted"
    /\ UNCHANGED <<pageVars, env, urlReads, calls, requests, directCalls, health, physics, loading, error, all, pc, chainVal, settleOrder>>

Next ==
    \/ DashboardEffect
    \/ \E op \in {"health", "getPhysicsInfo"}, def \in ApiDefs : DirectInvoke(op, def, Undefined)
    \/ \E id \in CallIds : \E res \in ServerResponses(calls[id].op) : FetchResponds(id, res)
    \/ \E id \in CallIds, m \in NetworkErrors : FetchFails(id, m)
    \/ \E id \in CallIds : BodyRead(id)
    \/ ThenStep
    \/ CatchStep
    \/ FinallyStep
    \/ Unmount

Spec == Init /\ [][Next]_vars

\* Promise reactions are microtasks: once queued they run, before any other task.
SpecLive == Spec /\ WF_vars(ThenStep) /\ WF_vars(CatchStep) /\ WF_vars(FinallyStep)

---------------------------------------------------------------------------
(* The client on its own: a caller invokes the operations of api.ts and    *)
(* calls getApiUrl(), with no dashboard mounted.                           *)

\* getApiUrl() { return API_URL }: the caller receives the string
GetApiUrl ==
    /\ MicrotasksIdle
    /\ Len(urlReads) < MaxUrlReads
    /\ urlReads' = Append(urlReads, [url |-> getApiUrl, requestsSoFar |-> Len(requests)])
    /\ UNCHANGED <<pageVars, env, calls, requests, directCalls, dashVars>>

ClientNext ==
    \/ \E op \in Ops, def \in ApiDefs : \E data \in Args(op) : DirectInvoke(op, def, data)
    \/ \E res \in ServerResponses(calls["direct"].op) : FetchResponds("direct", res)
    \/ \E m \in NetworkErrors : FetchFails("direct", m)
    \/ BodyRead("direct")
    \/ GetApiUrl

SpecClient == Init /\ [][ClientNext]_vars

---------------------------------------------------------------------------
(* The home page (app/page.tsx): its effect probes the backend once and    *)
(* drives the SYSTEM LIVE / OFFLINE indicator.                             *)

\* `${v}` in a template literal: ToString of the value
TemplateOf(v) ==
    CASE v.t = "undefined" -> "undefined"
      [] v.t = "null"      -> "null"
      [] v.t = "string"    -> v.s

\* `${process.env.NEXT_PUBLIC_API_URL}/health`: the page reads the environment
\* itself, without the client's default
HomeProbeUrl == TemplateOf(env) \o "/health"

\* .then(() => setIsLive(true)): the response is not looked at
ProbeThen(status) == TRUE

\* .catch(() => setIsLive(false))
ProbeCatch == FALSE

\* {isLive ? 'SYSTEM LIVE' : 'OFFLINE'}
Indicator == IF isLive THEN "SYSTEM LIVE" ELSE "OFFLINE"

\* useEffect(() => { fetch(...)... }, [])
HomeEffect ==
    /\ MicrotasksIdle
    /\ probe.stage = "rendered"
    /\ probe' = [probe EXCEPT !.stage = "fetching"]
    /\ requests' = Append(requests, [by |-> "home", method |-> "GET",
                                      url |-> HomeProbeUrl, body |-> NoBody])
    /\ UNCHANGED <<isLive, docsVars, animVars, hookVars, env, calls, directCalls, urlReads, dashVars>>

\* The probe's fetch resolves with a response of any status
HomeProbeResponds(status) ==
    /\ MicrotasksIdle
    /\ probe.stage = "fetching"
    /\ probe' = [stage |-> "responded", status |-> status]
    /\ isLive' = ProbeThen(status)
    /\ UNCHANGED <<docsVars, animVars, hookVars, env, calls, requests, directCalls, urlReads, dashVars>>

\* The probe's fetch rejects: no response
HomeProbeFails ==
    /\ MicrotasksIdle
    /\ probe.stage = "fetching"
    /\ probe' = [stage |-> "failed", status |-> 0]
    /\ isLive' = ProbeCatch
    /\ UNCHANGED <<docsVars, animVars, hookVars, env, calls, requests, directCalls, urlReads, dashVars>>

\* The home page next to a caller of the client
HomeNext ==
    \/ HomeEffect
    \/ \E status \in Statuses : HomeProbeResponds(status)
    \/ HomeProbeFails
    \/ \E def \in ApiDefs : DirectInvoke("health", def, Undefined)
    \/ \E res \in ServerResponses(calls["direct"].op) : FetchResponds("direct", res)
    \/ \E m \in NetworkErrors : FetchFails("direct", m)
    \/ BodyRead("direct")
    \/ GetApiUrl

SpecHome == Init /\ [][HomeNext]_vars

---------------------------------------------------------------------------
(* The usePlatform hook (hooks/usePlatform.ts), used once by the root      *)
(* layout.  A user-agent string is modelled by the set of the fragments    *)
(* the hook looks for that occur in it, in the case the browser writes.    *)

Platforms == {"mac", "windows", "ios", "android", "linux", "unknown"}

Fragments == {"iPhone", "iPad", "Android", "Mac", "Win", "Linux"}

\* navigator.userAgent: "... (iPad; CPU OS 16_0 like Mac OS X) ..." is {"iPad", "Mac"}
UserAgents == SUBSET Fragments

LowerCaseOf(f) ==
    CASE f = "iPhone"  -> "iphone"
      [] f = "iPad"    -> "ipad"
      [] f = "Android" -> "android"
      [] f = "Mac"     -> "mac"
      [] f = "Win"     -> "win"
      [] f = "Linux"   -> "linux"

\* ua.toLowerCase()
ToLowerCase(ua) == {LowerCaseOf(f) : f \in ua}

\* ua.includes(s)
Includes(ua, s) == s \in ua

NoTag == "none"

\* Mutant: the 'mac' test comes before the 'iphone' / 'ipad' test.
Detect_MacFirst(ua) ==
    IF Includes(ua, "mac") THEN "mac"
    ELSE IF Includes(ua, "iphone") \/ Includes(ua, "ipad") THEN "ios"
    ELSE IF Includes(ua, "android") THEN "android"
    ELSE IF Includes(ua, "win") THEN "windows"
    ELSE IF Includes(ua, "linux") THEN "linux"
    ELSE NoTag

\* The if / else-if chain of the effect, lines 13-28: the tag of the branch
\* taken, NoTag when none is
Detect(ua) ==
    IF Includes(ua, "iphone") \/ Includes(ua, "ipad") THEN "ios"
    ELSE IF Includes(ua, "android") THEN "android"
    ELSE IF Includes(ua, "mac") THEN "mac"
    ELSE IF Includes(ua, "win") THEN "windows"
    ELSE IF Includes(ua, "linux") THEN "linux"
    ELSE NoTag

\* useEffect(() => {...}, []): reads the user agent, and in the branch taken
\* queues setPlatform(tag) and writes document.body.dataset.platform
PlatformEffect(userAgent) ==
    /\ hookLife = "rendered"
    /\ hookLife' = "effect"
    /\ uaReads' = Append(uaReads, userAgent)
    /\ LET tag == Detect(ToLowerCase(userAgent)) IN
       dataPlatform' = IF tag = NoTag THEN dataPlatform ELSE Str(tag)
    /\ UNCHANGED <<platform, homeVars, docsVars, animVars, env, calls, requests, directCalls, urlReads, dashVars>>

\* The render that follows the effect: the hook returns the queued tag
PlatformCommit ==
    /\ hookLife = "effect"
    /\ hookLife' = "committed"
    /\ LET tag == Detect(ToLowerCase(uaReads[Len(uaReads)])) IN
       platform' = IF tag = NoTag THEN platform ELSE tag
    /\ UNCHANGED <<dataPlatform, uaReads, homeVars, docsVars, animVars, env, calls, requests, directCalls, urlReads, dashVars>>

PlatformNext ==
    \/ \E userAgent \in UserAgents : PlatformEffect(userAgent)
    \/ PlatformCommit

SpecPlatform == Init /\ [][PlatformNext]_vars

---------------------------------------------------------------------------
(* The docs page (app/docs/page.tsx): copyCode and the 'copied' marker.    *)
(* Time is a clock in milliseconds that advances in steps of ClockStep; a  *)
(* timer runs as soon as it is due, before the clock advances further.     *)

\* setTimeout(..., 2000)
CopyTimeout == 2000

ClockStep == 500

\* The code blocks of the page: the id and the code each passes to copyCode
Snippets == {[id |-> "install", code |-> "git clone"],
             [id |-> "curl", code |-> "curl -X POST"]}

\* copyCode(code, id): write the clipboard, set the marker, start a timer that
\* will reset the marker; the timer's handle is dropped
CopyCode(code, id) ==
    /\ Len(copies) < MaxCopies
    /\ clipboard' = Str(code)
    /\ copiedCode' = Str(id)
    /\ timeouts' = Append(timeouts, [due |-> now + CopyTimeout, pending |-> TRUE])
    /\ copies' = Append(copies, [id |-> id, at |-> now])
    /\ UNCHANGED <<now, homeVars, animVars, hookVars, env, calls, requests, directCalls, urlReads, dashVars>>

\* () => setCopiedCode(null), run by the i-th timer when it is due
TimeoutFires(i) ==
    /\ i \in 1..Len(timeouts)
    /\ timeouts[i].pending
    /\ now >= timeouts[i].due
    /\ copiedCode' = Null
    /\ timeouts' = [timeouts EXCEPT ![i].pending = FALSE]
    /\ UNCHANGED <<now, clipboard, copies, homeVars, animVars, hookVars, env, calls, requests, directCalls, urlReads, dashVars>>

\* Time passes
Advance ==
    /\ now < MaxTime
    /\ \A i \in 1..Len(timeouts) : timeouts[i].pending => now < timeouts[i].due
    /\ now' = now + ClockStep
    /\ UNCHANGED <<copiedCode, timeouts, clipboard, copies, homeVars, animVars, hookVars, env, calls, requests, directCalls, urlReads, dashVars>>

DocsNext ==
    \/ \E sn \in Snippets : CopyCode(sn.code, sn.id)
    \/ \E i \in 1..MaxCopies : TimeoutFires(i)
    \/ Advance

SpecDocs == Init /\ [][DocsNext]_vars

---------------------------------------------------------------------------
(* AnimatedNumber (components/ui/AnimatedNumber.tsx).  Numbers are exact   *)
(* fractions in lowest terms, so 0.8 and a step of value / 2.5 are what    *)
(* they are in the source, up to the rounding of floating point.           *)

RECURSIVE GCD(_, _)
GCD(a, b) == IF b = 0 THEN a ELSE GCD(b, a % b)

\* The fraction n / d in lowest terms, d > 0
Norm(n, d) ==
    LET g == GCD(IF n < 0 THEN -n ELSE n, d) IN
    IF n = 0 THEN Rat(0, 1) ELSE Rat(n \div g, d \div g)

RatAdd(a, b) == Norm(a.num * b.den + b.num * a.den, a.den * b.den)

\* a / b, b > 0
RatDiv(a, b) == Norm(a.num * b.den, a.den * b.num)

RatGeq(a, b) == a.num * b.den >= b.num * a.den

RatLeq(a, b) == RatGeq(b, a)

\* setInterval(..., 20)
TickMs == 20

\* The values the dashboard's metric cards pass (95, 0.8) and zero
AnimValues == {Rat(0, 1), Rat(4, 5), Rat(95, 1)}

\* Durations in milliseconds: one tick, two and a half ticks, five ticks
AnimDurations == {20, 50, 100}

\* const step = value / (duration / 20)
StepOf(value, duration) == RatDiv(value, RatDiv(Rat(duration, 1), Rat(TickMs, 1)))

\* The closure of one run of the effect: let start = 0, step, the interval
NewInterval(value, duration) ==
    [value |-> value, step |-> StepOf(value, duration), start |-> Rat(0, 1),
     ticks |-> 0, active |-> TRUE]

\* Mutant: the effect returns no cleanup.
Cleanup_Missing(ts, i) == ts

\* return () => clearInterval(interval), for the run that started interval i
Cleanup(ts, i) == [ts EXCEPT ![i].active = FALSE]

\* setDisplay of a component that may have unmounted
SetDisplay(new) == IF animLife = "mounted" THEN new ELSE display

\* First render and first run of the effect
AnimMount(value, duration) ==
    /\ animLife = "none"
    /\ animLife' = "mounted"
    /\ props' = [value |-> value, duration |-> duration]
    /\ intervals' = Append(intervals, NewInterval(value, duration))
    /\ UNCHANGED <<display, homeVars, docsVars, hookVars, env, calls, requests, directCalls, urlReads, dashVars>>

\* The parent renders the component with new props: [value, duration] changed,
\* so the cleanup of the previous run is called and the effect runs again
AnimPropsChange(value, duration) ==
    /\ animLife = "mounted"
    /\ Len(intervals) < MaxEffectRuns
    /\ [value |-> value, duration |-> duration] # props
    /\ props' = [value |-> value, duration |-> duration]
    /\ intervals' = Append(Cleanup(intervals, Len(intervals)), NewInterval(value, duration))
    /\ UNCHANGED <<display, animLife, homeVars, docsVars, hookVars, env, calls, requests, directCalls, urlReads, dashVars>>

\* Mutant: the last tick displays the running sum instead of value.
AnimTick_Overshoot(i) ==
    /\ i \in 1..Len(intervals)
    /\ intervals[i].active
    /\ LET t == intervals[i]
           start == RatAdd(t.start, t.step)
       IN  /\ display' = SetDisplay(start)
           /\ intervals' = [intervals EXCEPT ![i] =
                               [t EXCEPT !.start = start, !.ticks = @ + 1,
                                         !.active = ~RatGeq(start, t.value)]]
    /\ UNCHANGED <<props, animLife, homeVars, docsVars, hookVars, env, calls, requests, directCalls, urlReads, dashVars>>

\* The callback of interval i, lines 18-26
AnimTick(i) ==
    /\ i \in 1..Len(intervals)
    /\ intervals[i].active
    /\ LET t == intervals[i]
           start == RatAdd(t.start, t.step)
       IN  IF RatGeq(start, t.value)
           THEN /\ display' = SetDisplay(t.value)
                /\ intervals' = [intervals EXCEPT ![i] =
                                    [t EXCEPT !.start = start, !.ticks = @ + 1, !.active = FALSE]]
           ELSE /\ display' = SetDisplay(start)
                /\ intervals' = [intervals EXCEPT ![i] =
                                    [t EXCEPT !.start = start, !.ticks = @ + 1]]
    /\ UNCHANGED <<props, animLife, homeVars, docsVars, hookVars, env, calls, requests, directCalls, urlReads, dashVars>>

\* The component unmounts: the cleanup of the last run is called
AnimUnmount ==
    /\ animLife = "mounted"
    /\ animLife' = "unmounted"
    /\ intervals' = Cleanup(intervals, Len(intervals))
    /\ UNCHANGED <<display, props, homeVars, docsVars, hookVars, env, calls, requests, directCalls, urlReads, dashVars>>

AnimNext ==
    \/ \E value \in AnimValues, duration \in AnimDurations : AnimMount(value, duration)
    \/ \E value \in AnimValues, duration \in AnimDurations : AnimPropsChange(value, duration)
    \/ \E i \in 1..MaxEffectRuns : AnimTick(i)
    \/ AnimUnmount

SpecAnim == Init /\ [][AnimNext]_vars

\* An interval that is not cleared keeps firing
SpecAnimLive == SpecAnim /\ WF_vars(\E i \in 1..MaxEffectRuns : AnimTick(i))

---------------------------------------------------------------------------
(* Vocabulary of the properties *)

H == calls["dashHealth"]
P == calls["dashPhysics"]

Mounted == lifecycle # "unmounted"

Other(id) == IF id = "dashHealth" THEN "dashPhysics" ELSE "dashHealth"

\* The three view states of the aggregator: Loading, Ready carrying both
\* payloads, Error carrying a message.
IsLoading == loading
IsReady == ~loading /\ ~Truthy(error) /\ health # Null /\ physics # Null
IsError == ~loading /\ Truthy(error)

DashRequests == SelectSeq(requests, LAMBDA r : r.by = "dashboard")

InFlight(c) == c.stage \in {"fetching", "reading"}

---------------------------------------------------------------------------
(* Properties *)

\* C1: the view is Ready (the main view is rendered) only if both api.health()
\* and api.getPhysicsInfo() have resolved, and then the stored health and physics
\* values are exactly the two resolved payloads.
C1_ReadyOnlyWhenBothResolved ==
    Rendered.view = "main" =>
        /\ H.stage = "resolved" /\ P.stage = "resolved"
        /\ health = H.out /\ physics = P.out

C1_Witness ==
    /\ Mounted /\ Rendered.view = "main"
    /\ H.stage = "resolved" /\ P.stage = "resolved"

\* C2: when exactly one of the two calls has rejected, whatever the arrival order
\* and whether or not the other call has resolved yet, the finished poll cycle of
\* a mounted dashboard is in Error with the message of the rejected call; and
\* with a rejected call the Ready view is never shown.
C2_SingleRejectionEndsInError ==
    Mounted =>
        /\ (H.stage = "rejected" \/ P.stage = "rejected") => Rendered.view # "main"
        /\ \A id \in DashIds :
              (pc = "done" /\ calls[id].stage = "rejected" /\ calls[Other(id)].stage # "rejected")
                  => /\ IsError
                     /\ error = Str(calls[id].out.message)
                     /\ health = Null /\ physics = Null

\* getPhysicsInfo() rejected first, health() resolved later: the cycle ended in Error
C2_Witness ==
    /\ Mounted /\ pc = "done"
    /\ settleOrder = <<"dashPhysics", "dashHealth">>
    /\ P.stage = "rejected" /\ H.stage = "resolved"
    /\ error = Str("Failed to fetch physics info")

\* C3: when both calls resolve, the finished poll cycle is the Ready state holding
\* both payloads, whichever response arrived first (the state is a function of the
\* payloads alone), and as long as no call has rejected the view is never Error.
C3_SuccessIsOrderIndependent ==
    Mounted =>
        /\ (H.stage # "rejected" /\ P.stage # "rejected") => (~IsError /\ error = Null)
        /\ (pc = "done" /\ H.stage = "resolved" /\ P.stage = "resolved")
              => Rendered = [view |-> "main", health |-> H.out, physics |-> P.out]

\* the physics response arrived before the health response
C3_Witness ==
    /\ Mounted /\ pc = "done"
    /\ settleOrder = <<"dashPhysics", "dashHealth">>
    /\ H.stage = "resolved" /\ P.stage = "resolved"
    /\ IsReady

\* C4: a mounted dashboard is in exactly one of Loading, Ready (both payloads
\* held), Error (a message held), and the loading flag, once false, is never set
\* back to true.
C4_OneViewAndMonotonic ==
    /\ [](Mounted => Cardinality({v \in {"loading", "ready", "error"} :
                                    \/ v = "loading" /\ IsLoading
                                    \/ v = "ready" /\ IsReady
                                    \/ v = "error" /\ IsError}) = 1)
    /\ [][~loading => ~loading']_vars

C4_Witness == Mounted /\ IsReady /\ pc = "done" /\ Len(settleOrder) = 2

\* C5 as stated: the dashboard leaves Loading only after both calls have settled.
C5_Original_LeavesLoadingAfterBothSettled ==
    (Mounted /\ ~loading) => (Settled(H) /\ Settled(P))

\* C5, amended: the dashboard leaves Loading only after the join has settled, that
\* is after both calls have resolved or after one call has rejected (the other may
\* then still be in flight); it never leaves Loading while both calls are in
\* flight, nor while the only settled call has resolved.
C5_LeavesLoadingAfterJoinSettled ==
    (Mounted /\ ~loading) =>
        \/ H.stage = "resolved" /\ P.stage = "resolved"
        \/ H.stage = "rejected"
        \/ P.stage = "rejected"

\* Error is shown while health() is still in flight
C5_Witness ==
    /\ Mounted /\ ~loading /\ IsError
    /\ P.stage = "rejected" /\ InFlight(H)

\* C6: once a mounted dashboard has left Loading, no step (a late response, a late
\* rejection, a direct use of the client) changes its state or what it renders,
\* and it issues no request beyond the two of its effect.
C6_TerminalAndNoRepoll ==
    /\ [][(Mounted /\ ~loading) =>
             /\ <<health, physics, error, loading>>' = <<health, physics, error, loading>>
             /\ Rendered' = Rendered
             /\ DashRequests' = DashRequests]_vars
    /\ [](Len(DashRequests) = IF lifecycle = "rendered" THEN 0 ELSE 2)

\* the second call settled after the dashboard had shown Error
C6_Witness ==
    /\ Mounted /\ ~loading /\ IsError
    /\ Len(settleOrder) = 2
    /\ calls[settleOrder[1]].stage = "rejected"

\* C7: when both calls reject, the Error state carries the message of the call
\* that rejected first, and nothing of the other call is stored.
C7_FirstRejectionWins ==
    (Mounted /\ H.stage = "rejected" /\ P.stage = "rejected") =>
        /\ ~loading
        /\ error = Str(calls[settleOrder[1]].out.message)
        /\ health = Null /\ physics = Null
        /\ Rendered = [view |-> "error", message |-> calls[settleOrder[1]].out.message]

\* physics rejected first, health second, with different messages
C7_Witness ==
    /\ Mounted /\ pc = "done"
    /\ settleOrder = <<"dashPhysics", "dashHealth">>
    /\ H.stage = "rejected" /\ P.stage = "rejected"
    /\ H.out.message # P.out.message
    /\ error = Str(P.out.message)

C9_ErrorPanelShowsMessage ==
    (Mounted /\ ~loading /\ (H.stage = "rejected" \/ P.stage = "rejected")) =>
        LET first == IF calls[settleOrder[1]].stage = "rejected"
                     THEN settleOrder[1] ELSE settleOrder[2] IN
        Rendered = [view |-> "error", message |-> calls[first].out.message]

\* the rejection of res.json() is shown, too
C9_Witness ==
    /\ Mounted /\ ~loading
    /\ H.stage = "resolved" /\ P.stage = "rejected"
    /\ Rendered = [view |-> "error", message |-> ParseErrorMessage]

\* C10: a health() call that received a non-2xx response never goes on to read
\* the body or to resolve, and it rejects with exactly "Health check failed".
C10_HealthRejectsOnNon2xx ==
    \A id \in CallIds :
        (calls[id].op = "health" /\ calls[id].status # 0 /\ ~Ok(calls[id].status)) =>
            /\ calls[id].stage = "rejected"
            /\ calls[id].out = Err("Health check failed")

---------------------------------------------------------------------------
(* Properties of the client alone, checked under SpecClient *)

D == calls["direct"]

\* The request of the direct call in progress
LastRequest == requests[Len(requests)]

NonOk(c) == c.status # 0 /\ ~Ok(c.status)

\* C11: a getPhysicsInfo() call that received a non-2xx response rejects with the
\* one message "Failed to fetch physics info", whatever the status and the body,
\* and never reads the body.
C11_PhysicsRejectsFixedMessage ==
    \A id \in CallIds :
        (calls[id].op = "getPhysicsInfo" /\ NonOk(calls[id])) =>
            /\ calls[id].stage = "rejected"
            /\ calls[id].out = Err("Failed to fetch physics info")
            /\ calls[id].res = NoResponse

C11_Witness ==
    /\ D.op = "getPhysicsInfo" /\ D.status = 422 /\ D.stage = "rejected"

\* C12: an analyzeGrid call that received a non-2xx response whose JSON body has a
\* `detail` field rejects with a message equal to that field's value.
C12_DetailPropagatedVerbatim ==
    \A id \in CallIds :
        LET c == calls[id]
            parsed == JSONParse(c.res.body) IN
        (c.op = "analyzeGrid" /\ Settled(c) /\ NonOk(c)
            /\ parsed.ok /\ "detail" \in DOMAIN parsed.value.fields) =>
                /\ c.stage = "rejected"
                /\ Str(c.out.message) = Get(parsed.value, "detail")

\* C13: an analyzeGrid call that received a non-2xx response without a `detail`
\* field rejects with exactly "Analysis failed".
C13_FallbackMessage ==
    \A id \in CallIds :
        LET c == calls[id]
            parsed == JSONParse(c.res.body) IN
        (c.op = "analyzeGrid" /\ Settled(c) /\ NonOk(c)
            /\ (~parsed.ok \/ "detail" \notin DOMAIN parsed.value.fields)) =>
                /\ c.stage = "rejected"
                /\ c.out = Err("Analysis failed")

C16_HealthResolvesToParsedBody ==
    \A id \in CallIds :
        LET c == calls[id]
            parsed == JSONParse(c.res.body) IN
        (c.op = "health" /\ Settled(c) /\ c.status # 0 /\ Ok(c.status) /\ parsed.ok) =>
            /\ c.stage = "resolved"
            /\ c.out = parsed.value
            /\ (c.res.body = HealthyBody =>
                    c.out = Obj([status |-> "healthy", components |-> "{}"]))

C16_Witness ==
    /\ D.op = "health" /\ D.status = 200 /\ D.res.body = HealthyBody
    /\ D.stage = "resolved"

\* C17: the number of HTTP requests issued equals the number of invocations of
\* the client, whatever the outcome of each: nothing is retried.
C17_OneRequestPerInvocation ==
    Len(requests) = directCalls + (IF lifecycle = "rendered" THEN 0 ELSE 2)

\* an invocation that failed at the network level issued one request
C17_Witness ==
    /\ D.stage = "rejected" /\ D.status = 0
    /\ directCalls = 1 /\ Len(requests) = 1

\* C18: every call of getApiUrl() returns the same string, whatever client
\* operations run between the calls, and a call of getApiUrl() changes nothing
\* else: no request is issued, no call is started or changed.
C18_GetApiUrlStable ==
    /\ [](\A i \in 1..Len(urlReads) : urlReads[i].url = urlReads[1].url)
    /\ [][urlReads' # urlReads =>
             /\ requests' = requests
             /\ calls' = calls
             /\ directCalls' = directCalls
             /\ env' = env]_vars

\* one call before and one after an operation was invoked
C18_Witness ==
    /\ Len(urlReads) = 2
    /\ urlReads[1].requestsSoFar = 0 /\ urlReads[2].requestsSoFar = 1
    /\ Settled(D)

\* C19: the base URL is the environment override when there is one and
\* "http://localhost:8000" otherwise, getApiUrl() returns it, and every request
\* of health, getPhysicsInfo and analyzeGrid targets it followed by the
\* operation's fixed path.
C19_RequestsTargetBaseUrl ==
    /\ getApiUrl = IF env = Undefined THEN "http://localhost:8000" ELSE env.s
    /\ \A i \in 1..Len(urlReads) : urlReads[i].url = getApiUrl
    /\ (D.op = "health") => LastRequest.url = getApiUrl \o "/health"
    /\ (D.op = "getPhysicsInfo") => LastRequest.url = getApiUrl \o "/api/v1/physics/info"
    /\ (D.op = "analyzeGrid") => LastRequest.url = getApiUrl \o "/api/v1/analysis/validate"

\* with an override, a request goes to the override
C19_Witness ==
    /\ env = Str(OverrideUrl)
    /\ D.op = "getPhysicsInfo"
    /\ LastRequest.url = "https://urjarakshak.onrender.com/api/v1/physics/info"

---------------------------------------------------------------------------
(* Properties of the dashboard, continued (checked under Spec) *)

\* C20 as stated: as long as one of the two calls has not settled, the mounted
\* dashboard shows Loading, whatever the other call did.
C20_Original_HungCallKeepsLoading ==
    (Mounted /\ (InFlight(H) \/ InFlight(P))) => Rendered.view = "loading"

\* C20, amended: as long as one of the two calls has not settled and the other
\* has not rejected, the mounted dashboard shows Loading; when the other call
\* rejects, the dashboard shows Error although the first is still in flight.
C20_HungCallKeepsLoadingUnlessOtherRejects ==
    (Mounted /\ (InFlight(H) \/ InFlight(P))) =>
        IF H.stage = "rejected" \/ P.stage = "rejected"
        THEN pc = "done" => Rendered.view = "error"
        ELSE Rendered.view = "loading" /\ pc = "idle"

\* getPhysicsInfo() resolved, health() still in flight: Loading
C20_Witness ==
    /\ Mounted /\ P.stage = "resolved" /\ InFlight(H)
    /\ Rendered.view = "loading"

\* C21: unmounting the dashboard changes no call and no request (nothing is
\* cancelled: a call in flight at unmount can still receive its response or its
\* network failure), and from then on no settlement changes the stored health,
\* physics, error or loading of the dashboard, nor any state of another page.
C21_UnmountCancelsNothing ==
    /\ [][(lifecycle # "unmounted" /\ lifecycle' = "unmounted") =>
             (calls' = calls /\ requests' = requests)]_vars
    /\ [][lifecycle = "unmounted" =>
             /\ UNCHANGED <<health, physics, loading, error>>
             /\ UNCHANGED pageVars
             /\ \A id \in DashIds :
                    calls'[id].stage # calls[id].stage => ~Settled(calls[id])]_vars
    /\ [](\A id \in DashIds :
             (lifecycle = "unmounted" /\ MicrotasksIdle /\ calls[id].stage = "fetching") =>
                 /\ ENABLED FetchFails(id, "Failed to fetch")
                 /\ \A res \in ServerResponses(calls[id].op) : ENABLED FetchResponds(id, res))

\* both calls resolved after the unmount and the whole chain ran: nothing stored
C21_Witness ==
    /\ lifecycle = "unmounted" /\ pc = "done"
    /\ H.stage = "resolved" /\ P.stage = "resolved"
    /\ all.state = "fulfilled"
    /\ loading /\ health = Null /\ physics = Null

C24_SettledLeavesLoading ==
    /\ (Mounted /\ Settled(H) /\ Settled(P)) ~> ~loading
    /\ (Mounted /\ all.state = "fulfilled") ~> IsReady
    /\ (Mounted /\ all.state = "rejected") ~> IsError

\* both calls rejected, the cycle is over and the dashboard shows the error
C24_Witness ==
    /\ Mounted /\ H.stage = "rejected" /\ P.stage = "rejected"
    /\ pc = "done" /\ ~loading /\ Rendered.view = "error"

---------------------------------------------------------------------------
(* Properties of the home page, checked under SpecHome *)

\* C25: the home page shows SYSTEM LIVE only after its probe of /health got a
\* 2xx response; after a non-2xx response or a failed request it shows OFFLINE.
C25_LiveOnlyAfter2xx ==
    /\ Indicator = "SYSTEM LIVE" => (probe.stage = "responded" /\ Ok(probe.status))
    /\ (probe.stage = "failed" \/ (probe.stage = "responded" /\ ~Ok(probe.status))) =>
           Indicator = "OFFLINE"

\* C26: with or without an override, the URL the home page probes is the URL
\* api.health() requests, getApiUrl() followed by "/health".
C26_ProbeUrlIsHealthUrl ==
    \A i \in 1..Len(requests) :
        requests[i].by = "home" =>
            /\ requests[i].url = getApiUrl \o "/health"
            /\ requests[i].url = Request("health", "direct", Undefined).url

---------------------------------------------------------------------------
(* Properties of usePlatform, checked under SpecPlatform *)

\* the user agent the hook read, lower-cased
UaRead == ToLowerCase(uaReads[1])

---------------------------------------------------------------------------
(* Properties of the docs page, checked under SpecDocs *)

\* C27: after copyCode(code, id) the marker copiedCode equals id until 2000 ms
\* have passed since that call or another copyCode call replaced it: as long as
\* less than 2000 ms have passed since the latest copyCode call, the marker is
\* the id of that call, whatever timers earlier calls started.
C27_MarkerHoldsForTimeout ==
    copies # <<>> =>
        LET last == copies[Len(copies)] IN
        now < last.at + CopyTimeout => copiedCode = Str(last.id)

---------------------------------------------------------------------------
(* Properties of AnimatedNumber *)

ActiveIntervals == {i \in 1..Len(intervals) : intervals[i].active}

\* Interval i ticks in this step
Ticked(i) ==
    /\ i \in 1..Len(intervals)
    /\ intervals'[i].ticks = intervals[i].ticks + 1

\* C28: for each value >= 0 and duration > 0 the counter terminates: a mounted
\* component eventually displays exactly value with no interval left active, and
\* with no interval active the display no longer changes.  Until then the number
\* a tick displays never exceeds value, a tick never displays less than the tick
\* before it of the same counter, and the counter started at mount never
\* displays more than value at all.
C28_CounterTerminatesAtValue ==
    /\ <>[](animLife = "mounted" => (display = props.value /\ ActiveIntervals = {}))
    /\ [][ActiveIntervals = {} => display' = display]_vars
    /\ [][\A i \in 1..Len(intervals) : Ticked(i) =>
             /\ RatLeq(display', intervals[i].value)
             /\ intervals[i].ticks > 0 => RatLeq(display, display')
             /\ intervals'[i].active = ~(display' = intervals[i].value)]_vars
    /\ [](Len(intervals) = 1 => RatLeq(display, intervals[1].value))

\* 95 reached over a duration of 50 ms: two steps of 38, then the value itself
C28_Witness ==
    /\ animLife = "mounted" /\ Len(intervals) = 1
    /\ props = [value |-> Rat(95, 1), duration |-> 50]
    /\ intervals[1].ticks = 3 /\ ~intervals[1].active
    /\ display = Rat(95, 1)

\* C29: across prop changes and unmount at most one interval is active at any
\* time, and it is the one the last run of the effect started; an unmounted
\* component has none; only the newest interval ever ticks, and only while the
\* component is mounted; nothing else changes the display.
C29_AtMostOneInterval ==
    /\ [](Cardinality(ActiveIntervals) <= 1)
    /\ [](ActiveIntervals \subseteq {Len(intervals)})
    /\ [](animLife # "mounted" => ActiveIntervals = {})
    /\ [][\A i \in 1..Len(intervals) :
             Ticked(i) => (i = Len(intervals) /\ animLife = "mounted")]_vars
    /\ [][display' # display => Ticked(Len(intervals))]_vars

\* the first counter was superseded half way, the second one is counting
C29_Witness ==
    /\ animLife = "mounted" /\ Len(intervals) = 2
    /\ intervals[1].ticks = 1 /\ ~intervals[1].active
    /\ ~RatGeq(intervals[1].start, intervals[1].value)
    /\ intervals[2].ticks = 1 /\ intervals[2].active

====
